---- MODULE Spec2Model ----
(***************************************************************************)
(* Model of the Node.js native bridge bindings/nodejs/src/native/addon.cc: *)
(* six host-callable operations that marshal host values into C records,   *)
(* call the engine, translate the result envelope and release it.          *)
(* The engine lives outside addon.cc and is modelled from its              *)
(* declarations and the design document.                                   *)
(***************************************************************************)
EXTENDS Integers, Sequences, FiniteSets, TLC

VARIABLES
    build,      \* "exc": N-API errors unwind as C++ exceptions; "noexc": they only set a pending host exception
    sessions,   \* engine: the set of live session ids
    issued,     \* history: every id gzh_node_client_create has ever returned
    frame,      \* per thread: the call frame of the current / last invocation
    heap,       \* bridge allocations (new / strdup) that are live and owned by a running invocation
    leaked,     \* number of bridge allocations abandoned live by an invocation that has ended
    envLive,    \* engine: result envelopes allocated and not yet released (named by the receiving thread)
    envLeaked,  \* number of envelopes abandoned unreleased by an invocation that has ended
    ncalls,     \* number of invocations started
    crashed     \* the process died on an invalid memory access

vars == <<build, sessions, issued, frame, heap, leaked, envLive, envLeaked, ncalls, crashed>>

----------------------------------------------------------------------------
(* Bounds *)

MaxCalls == 3
MaxHandle == 1

Threads == {"t1"}
Handles == 0 .. MaxHandle

----------------------------------------------------------------------------
(* Host (JavaScript) values.  A value is [k, s, f]: its kind, its scalar   *)
(* content and, for objects, its properties.                                *)
(*   number  : s = <<a, v>> is the integer a * 2^32 + v, -2^31 <= v < 2^31 *)
(*   string  : s = the code units (0 is U+0000)                            *)
(*   boolean : s = <<1>> or <<0>>                                          *)

NoProps == [x \in {} |-> 0]

Undef   == [k |-> "undefined", s |-> <<>>, f |-> NoProps]
JsNull  == [k |-> "null", s |-> <<>>, f |-> NoProps]
Num(a, v) == [k |-> "number", s |-> <<a, v>>, f |-> NoProps]
Str(cs) == [k |-> "string", s |-> cs, f |-> NoProps]
Bool(b) == [k |-> "boolean", s |-> IF b THEN <<1>> ELSE <<0>>, f |-> NoProps]
Obj(props) == [k |-> "object", s |-> <<>>, f |-> props]

IsNumber(v) == v.k = "number"
IsString(v) == v.k = "string"
IsObject(v) == v.k = "object"

(* C pointers to strings: NULL, or a block holding a NUL-terminated string *)
NULL == <<>>
Ptr(bytes) == <<bytes>>

(* UTF-8 bytes of one code unit (the model's alphabet stays below U+0800) *)
Utf8Char(c) == IF c < 128 THEN <<c>> ELSE <<192 + (c \div 64), 128 + (c % 64)>>

RECURSIVE Utf8Value(_)
Utf8Value(cs) == IF cs = <<>> THEN <<>> ELSE Utf8Char(Head(cs)) \o Utf8Value(Tail(cs))

\* What String::New(env, const char *) decodes from well-formed UTF-8
RECURSIVE Utf8Decode(_)
Utf8Decode(bs) ==
    IF bs = <<>> THEN <<>>
    ELSE IF Head(bs) < 128 THEN <<Head(bs)>> \o Utf8Decode(Tail(bs))
    ELSE <<(Head(bs) - 192) * 64 + (bs[2] - 128)>> \o Utf8Decode(Tail(Tail(bs)))

(* std::string::c_str() read as a C string: the bytes before the first NUL *)
RECURSIVE CStr(_)
CStr(bs) == IF bs = <<>> \/ Head(bs) = 0 THEN <<>> ELSE <<Head(bs)>> \o CStr(Tail(bs))

(* strdup(s.c_str()) *)
StrDup(bs) == Ptr(CStr(bs))

(* Napi::Number::Int32Value: the low 32 bits, as a signed integer *)
Int32Value(v) == v.s[2]

(* Napi::Number::Int64Value: every integer of the model fits 64 bits *)
Int64Value(v) == v.s

(* Napi::Number::New(env, int) *)
NumberNew(i) == Num(0, i)

----------------------------------------------------------------------------
\* N-API conversions inside the translators.  A conversion state st is
\*   c       the C record built so far
\*   al      the record's fields that hold a bridge allocation
\*   pending a host exception is pending in the environment
\*   thrown  a C++ exception is unwinding the handler
\* A failed N-API call (wrong type) throws in the "exc" build; in the "noexc"
\* build it leaves an exception pending and yields the empty value, and
\* while an exception is pending Object::Has itself fails and yields false.

Has(st, obj, name) == ~st.pending /\ name \in DOMAIN obj.f

Fail(st, b) ==
    IF b = "exc" THEN [st EXCEPT !.thrown = TRUE] ELSE [st EXCEPT !.pending = TRUE]

ConvInt64(st, obj, name, cf, b) ==
    IF st.thrown \/ ~Has(st, obj, name) THEN st
    ELSE IF IsNumber(obj.f[name]) THEN [st EXCEPT !.c[cf] = Int64Value(obj.f[name])]
    ELSE Fail(st, b)

ConvInt32(st, obj, name, cf, b) ==
    IF st.thrown \/ ~Has(st, obj, name) THEN st
    ELSE IF IsNumber(obj.f[name]) THEN [st EXCEPT !.c[cf] = Int32Value(obj.f[name])]
    ELSE Fail(st, b)

ConvBool(st, obj, name, cf, b) ==
    IF st.thrown \/ ~Has(st, obj, name) THEN st
    ELSE IF obj.f[name].k = "boolean" THEN [st EXCEPT !.c[cf] = obj.f[name].s[1]]
    ELSE Fail(st, b)

\* std::string x = Get(name).As<String>().Utf8Value(); c.cf = strdup(x.c_str());
ConvString(st, obj, name, cf, b) ==
    IF st.thrown \/ ~Has(st, obj, name) THEN st
    ELSE IF IsString(obj.f[name])
         THEN [st EXCEPT !.c[cf] = StrDup(Utf8Value(obj.f[name].s)), !.al = @ \cup {cf}]
    ELSE IF b = "exc" THEN [st EXCEPT !.thrown = TRUE]
    ELSE [st EXCEPT !.pending = TRUE, !.c[cf] = StrDup(<<>>), !.al = @ \cup {cf}]

\* gzh_client_config_t after memset(config, 0, ...)
ZeroConfig ==
    [timeout |-> <<0, 0>>, retry_count |-> 0, enable_plugins |-> 0,
     plugin_dir |-> NULL, log_level |-> NULL, log_file |-> NULL]

ConfigStrings == {"plugin_dir", "log_level", "log_file"}

ObjectToClientConfig(obj, b) ==
    LET s0 == [c |-> ZeroConfig, al |-> {"config"}, pending |-> FALSE, thrown |-> FALSE]
        s1 == ConvInt64(s0, obj, "timeout", "timeout", b)
        s2 == ConvInt32(s1, obj, "retryCount", "retry_count", b)
        s3 == ConvBool(s2, obj, "enablePlugins", "enable_plugins", b)
        s4 == ConvString(s3, obj, "pluginDir", "plugin_dir", b)
        s5 == ConvString(s4, obj, "logLevel", "log_level", b)
    IN  ConvString(s5, obj, "logFile", "log_file", b)

\* FreeClientConfig without the line that frees log_file
FreeClientConfig_SkipsLogFile(c) ==
    {cf \in {"plugin_dir", "log_level"} : c[cf] # NULL} \cup {"config"}

\* The blocks FreeClientConfig hands to free / delete
FreeClientConfig(c) == {cf \in ConfigStrings : c[cf] # NULL} \cup {"config"}

\* gzh_bulk_clone_request_t after memset(&request, 0, ...)
ZeroRequest ==
    [platforms_json |-> NULL, output_dir |-> NULL, concurrency |-> 0,
     strategy |-> NULL, include_private |-> 0, filters_json |-> NULL]

RequestStrings == {"platforms_json", "output_dir", "strategy", "filters_json"}

\* BulkClone's "Convert request object to C struct"
ObjectToRequest(obj, b) ==
    LET s0 == [c |-> ZeroRequest, al |-> {}, pending |-> FALSE, thrown |-> FALSE]
        s1 == ConvString(s0, obj, "platforms", "platforms_json", b)
        s2 == ConvString(s1, obj, "outputDir", "output_dir", b)
        s3 == ConvInt32(s2, obj, "concurrency", "concurrency", b)
        s4 == ConvString(s3, obj, "strategy", "strategy", b)
        s5 == ConvBool(s4, obj, "includePrivate", "include_private", b)
    IN  ConvString(s5, obj, "filters", "filters_json", b)

\* "Free request strings" without the line that frees filters_json
FreeRequestStrings_SkipsFilters(c) ==
    {cf \in {"platforms_json", "output_dir", "strategy"} : c[cf] # NULL}

\* BulkClone's "Free request strings": the blocks handed to free
FreeRequestStrings(c) == {cf \in RequestStrings : c[cf] # NULL}

\* ResultToObject with the two string fields stored under each other's name
ResultToObject_Swapped(r) ==
    Obj([success |-> Bool(r.success = 1),
         error   |-> IF r.data_json # NULL THEN Str(Utf8Decode(r.data_json[1])) ELSE JsNull,
         data    |-> IF r.error_msg # NULL THEN Str(Utf8Decode(r.error_msg[1])) ELSE JsNull])

\* ResultToObject on an envelope that exists: the properties it sets
ResultToObject(r) ==
    Obj([success |-> Bool(r.success = 1),
         error   |-> IF r.error_msg # NULL THEN Str(Utf8Decode(r.error_msg[1])) ELSE JsNull,
         data    |-> IF r.data_json # NULL THEN Str(Utf8Decode(r.data_json[1])) ELSE JsNull])

\* The object ResultToObject returns when its property stores fail (noexc build)
EmptyObject == Obj(NoProps)

----------------------------------------------------------------------------
\* The engine behind the extern "C" declarations (addon.cc lines 31-38).

ErrText == Utf8Value(<<233>>)
PayloadText == Utf8Value(<<100>>)

\* gzh_result_t values the engine can hand out
Envelopes ==
    [success : {0, 1}, error_msg : {NULL, Ptr(ErrText)}, data_json : {NULL, Ptr(PayloadText)}]

\* gzh_node_client_create: a fresh session id, or the negative sentinel
ClientCreateResults(sess) == {-1} \cup (Handles \ sess)

\* gzh_node_client_destroy: ends the session if there is one
ClientDestroy(sess, id) == sess \ {id}

\* gzh_node_bulk_clone / list_plugins / execute_plugin / health: a pointer to
\* an envelope; for an id with no session, a failure envelope or no envelope
EngineResults(sess, id) ==
    IF id \in sess THEN {<<e>> : e \in Envelopes}
    ELSE {NULL} \cup {<<e>> : e \in {x \in Envelopes : x.success = 0}}

----------------------------------------------------------------------------
\* Call frames

DefaultTimeout == 30

NoOut == [kind |-> "none", err |-> "", v |-> Undef]
Raised(e) == [kind |-> "raised", err |-> e, v |-> Undef]
Returned(v) == [kind |-> "value", err |-> "", v |-> v]

IdleFrame ==
    [pc |-> "idle", op |-> "none", info |-> <<>>, clientID |-> 0,
     cfg |-> NULL, req |-> ZeroRequest, strs |-> <<>>, timeout |-> 0,
     res |-> NULL, obj |-> Undef, pending |-> FALSE, recv |-> <<>>,
     out |-> NoOut, nalloc |-> 0, nengine |-> 0, nfree |-> 0, left |-> 0,
     memErr |-> FALSE, before |-> {}]

\* A fresh frame for operation op called with the arguments info
Enter(op, info) ==
    [IdleFrame EXCEPT !.pc = "entered", !.op = op, !.info = info, !.before = sessions]

CanCall(t) == /\ ~crashed
              /\ frame[t].pc \in {"idle", "done"}
              /\ ncalls < MaxCalls

\* A C string as the engine reads it through pointer p to block <<t, cf>>
Dangling == Ptr(<<-1>>)
Seen(t, cf, p) == IF p = NULL THEN NULL ELSE IF <<t, cf>> \in heap THEN p ELSE Dangling

\* The handler of thread t returns (or unwinds) with frame fr: whatever it
\* still owns on the heap hp, and its envelope if still in el, is abandoned.
End(t, fr, hp, el) ==
    LET mine == {b \in hp : b[1] = t} IN
    /\ frame' = [frame EXCEPT ![t] = [fr EXCEPT !.pc = "done", !.left = Cardinality(mine)]]
    /\ heap' = hp \ mine
    /\ leaked' = leaked + Cardinality(mine)
    /\ envLive' = el \ {t}
    /\ envLeaked' = envLeaked + (IF t \in el THEN 1 ELSE 0)

\* What the host sees when a handler returns v: a pending exception wins
HostSees(fr, v) == IF fr.pending THEN Raised("pending") ELSE Returned(v)

----------------------------------------------------------------------------
\* Host inputs

TxtA == <<97>>                 \* "a"
TxtNonAscii == <<233, 97>>     \* a two-byte UTF-8 character, then "a"
TxtNul == <<97, 0, 97>>        \* "a", U+0000, "a"

\* Host numbers offered as a session handle: every id the engine can issue,
\* 2^32 (never issued; its low 32 bits are 0) and a string in the number's place
HandleArgs == {Num(0, h) : h \in Handles} \cup {Num(1, 0), Str(TxtA)}

Configs ==
    { NoProps,
      [timeout |-> Num(0, 5000), retryCount |-> Num(0, 2)],
      [enablePlugins |-> Bool(TRUE), pluginDir |-> Str(TxtA),
       logLevel |-> Str(TxtNonAscii), logFile |-> Str(<<>>)],
      [retryCount |-> Num(1, 1)],
      [pluginDir |-> Str(TxtNul)],
      [timeout |-> Str(TxtA), retryCount |-> Num(0, 2), logFile |-> Str(TxtA)],
      [pluginDir |-> Str(TxtA), logLevel |-> Num(0, 3), logFile |-> Str(TxtA)] }

CreateInfos == {<<>>, <<Str(TxtA)>>} \cup {<<Obj(c)>> : c \in Configs}

HandleInfos == {<<>>} \cup {<<h>> : h \in HandleArgs}

----------------------------------------------------------------------------
\* CreateClient (addon.cc lines 103-123)

\* lines 106-109: translate the configuration, if one is given
CreateClientEnter(t) ==
    /\ CanCall(t)
    /\ \E info \in CreateInfos :
         LET fr == Enter("createClient", info)
             given == Len(info) > 0 /\ IsObject(info[1])
             st == ObjectToClientConfig(info[1], build)
             blocks == {<<t, a>> : a \in st.al}
         IN  IF ~given
             THEN /\ frame' = [frame EXCEPT ![t] = [fr EXCEPT !.pc = "cc_engine"]]
                  /\ UNCHANGED <<heap, leaked, envLive, envLeaked>>
             ELSE IF st.thrown
             THEN End(t, [fr EXCEPT !.nalloc = Cardinality(st.al), !.out = Raised("napi")],
                      heap \cup blocks, envLive)
             ELSE /\ frame' = [frame EXCEPT ![t] =
                         [fr EXCEPT !.pc = "cc_engine", !.cfg = <<st.c>>,
                                    !.pending = st.pending, !.nalloc = Cardinality(st.al)]]
                  /\ heap' = heap \cup blocks
                  /\ UNCHANGED <<leaked, envLive, envLeaked>>
    /\ ncalls' = ncalls + 1
    /\ UNCHANGED <<build, sessions, issued, crashed>>

\* What reading a configuration record in freed storage yields
DanglingConfig ==
    [timeout |-> <<-1, -1>>, retry_count |-> -1, enable_plugins |-> -1,
     plugin_dir |-> Dangling, log_level |-> Dangling, log_file |-> Dangling]

\* The configuration record as gzh_node_client_create reads it
ConfigSeen(t, cfg) ==
    IF cfg = NULL THEN NULL
    ELSE IF <<t, "config">> \notin heap THEN <<DanglingConfig>>
    ELSE <<[cfg[1] EXCEPT !.plugin_dir = Seen(t, "plugin_dir", @),
                          !.log_level = Seen(t, "log_level", @),
                          !.log_file = Seen(t, "log_file", @)]>>

\* line 111: int clientID = gzh_node_client_create(config)
CreateClientEngine(t) ==
    /\ ~crashed
    /\ frame[t].pc = "cc_engine"
    /\ \E id \in ClientCreateResults(sessions) :
         /\ sessions' = IF id >= 0 THEN sessions \cup {id} ELSE sessions
         /\ issued' = IF id >= 0 THEN issued \cup {id} ELSE issued
         /\ frame' = [frame EXCEPT ![t] =
                [@ EXCEPT !.pc = "cc_free", !.clientID = id, !.nengine = @ + 1,
                          !.recv = <<[fn |-> "client_create", id |-> 0,
                                      arg |-> ConfigSeen(t, frame[t].cfg),
                                      timeout |-> 0]>>]]
    /\ UNCHANGED <<build, heap, leaked, envLive, envLeaked, ncalls, crashed>>

\* lines 113-122: free the configuration, then raise or return the handle
CreateClientExit(t) ==
    /\ ~crashed
    /\ frame[t].pc = "cc_free"
    /\ LET fr == frame[t]
           freed == IF fr.cfg # NULL THEN {<<t, a>> : a \in FreeClientConfig(fr.cfg[1])} ELSE {}
           bad == freed \ heap # {}
           out == IF fr.clientID < 0 THEN Raised("TypeError: Failed to create client")
                  ELSE HostSees(fr, NumberNew(fr.clientID))
       IN  End(t, [fr EXCEPT !.out = out, !.memErr = @ \/ bad], heap \ freed, envLive)
    /\ UNCHANGED <<build, sessions, issued, ncalls, crashed>>

----------------------------------------------------------------------------
\* DestroyClient (addon.cc lines 126-138)

DestroyArgsBad(info) == Len(info) < 1 \/ ~IsNumber(info[1])

DestroyClient(t) ==
    /\ CanCall(t)
    /\ \E info \in HandleInfos :
         LET fr == Enter("destroyClient", info) IN
         IF DestroyArgsBad(info)
         THEN /\ End(t, [fr EXCEPT !.out = Raised("TypeError: Expected client ID")], heap, envLive)
              /\ UNCHANGED sessions
         ELSE LET id == Int32Value(info[1]) IN
              /\ sessions' = ClientDestroy(sessions, id)
              /\ End(t, [fr EXCEPT !.clientID = id, !.nengine = 1,
                                   !.recv = <<[fn |-> "client_destroy", id |-> id,
                                               arg |-> NULL, timeout |-> 0]>>,
                                   !.out = Returned(Undef)],
                     heap, envLive)
    /\ ncalls' = ncalls + 1
    /\ UNCHANGED <<build, issued, crashed>>

----------------------------------------------------------------------------
\* BulkClone, ListPlugins, ExecutePlugin, Health: argument checks and
\* translation up to the engine call

Requests ==
    { NoProps,
      [platforms |-> Str(TxtA), outputDir |-> Str(TxtNonAscii), concurrency |-> Num(0, 4),
       strategy |-> Str(TxtA), includePrivate |-> Bool(FALSE)],
      [platforms |-> Str(<<>>), includePrivate |-> Bool(TRUE), filters |-> Str(TxtA)],
      [outputDir |-> Str(TxtNul)],
      [concurrency |-> Num(1, 4)],
      [platforms |-> Str(TxtA), outputDir |-> Num(0, 5), strategy |-> Str(TxtA)],
      [platforms |-> Num(0, 1), outputDir |-> Str(TxtA)],
      [platforms |-> Str(TxtA), concurrency |-> Str(TxtA)],
      [strategy |-> Str(TxtA), includePrivate |-> Num(0, 1), filters |-> Str(TxtA)] }

BulkInfos ==
    {<<>>} \cup {<<h>> : h \in HandleArgs}
           \cup {<<h, r>> : h \in HandleArgs, r \in {Str(TxtA)} \cup {Obj(q) : q \in Requests}}

ExecTails ==
    { <<Str(TxtA), Str(TxtA), Str(TxtA)>>,
      <<Str(TxtNul), Str(TxtNonAscii), Str(<<>>)>>,
      <<Str(TxtA), Str(TxtA), Str(TxtA), Num(0, 5)>>,
      <<Str(TxtA), Str(TxtA), Str(TxtA), Num(1, 5)>>,
      <<Str(TxtA), Str(TxtA), Str(TxtA), Undef>>,
      <<Num(0, 1), Str(TxtA), Str(TxtA)>>,
      <<Str(TxtA), Undef, Str(TxtA)>>,
      <<Str(TxtA), Str(TxtA), Obj(NoProps)>>,
      <<Str(TxtA), Str(TxtA)>> }

ExecInfos == {<<>>} \cup {<<h>> \o tl : h \in HandleArgs, tl \in ExecTails}

\* The check of line 144 without its IsObject test
BulkCloneArgsBad_NoObjectTest(info) == Len(info) < 2 \/ ~IsNumber(info[1])

\* line 144
BulkCloneArgsBad(info) == Len(info) < 2 \/ ~IsNumber(info[1]) \/ ~IsObject(info[2])

\* lines 197 and 245
HandleArgsBad(info) == Len(info) < 1 \/ ~IsNumber(info[1])

\* lines 215-216
ExecutePluginArgsBad(info) ==
    Len(info) < 4 \/ ~IsNumber(info[1]) \/ ~IsString(info[2])
                  \/ ~IsString(info[3]) \/ ~IsString(info[4])

\* ExecutePlugin passing c_str() of temporaries: no buffer outlives its statement
StringLocals_Temporaries(t) == {}

\* The three std::string locals of ExecutePlugin
StringLocals(t) == {<<t, "pluginName">>, <<t, "method">>, <<t, "argsJson">>}

\* BulkClone, lines 141-177
BulkCloneEnter(t) ==
    /\ CanCall(t)
    /\ \E info \in BulkInfos :
         LET fr == Enter("bulkClone", info) IN
         IF BulkCloneArgsBad(info)
         THEN End(t, [fr EXCEPT !.out = Raised("TypeError: Expected client ID and request object")],
                  heap, envLive)
         ELSE LET st == ObjectToRequest(info[2], build)
                  blocks == {<<t, a>> : a \in st.al}
                  fr2 == [fr EXCEPT !.clientID = Int32Value(info[1]), !.req = st.c,
                                    !.pending = st.pending, !.nalloc = Cardinality(st.al)]
              IN  IF st.thrown
                  THEN End(t, [fr2 EXCEPT !.out = Raised("napi")], heap \cup blocks, envLive)
                  ELSE /\ frame' = [frame EXCEPT ![t] = [fr2 EXCEPT !.pc = "engine"]]
                       /\ heap' = heap \cup blocks
                       /\ UNCHANGED <<leaked, envLive, envLeaked>>
    /\ ncalls' = ncalls + 1
    /\ UNCHANGED <<build, sessions, issued, crashed>>

\* ListPlugins, lines 194-202, and Health, lines 242-250
HandleOnlyEnter(t, op) ==
    /\ CanCall(t)
    /\ \E info \in HandleInfos :
         LET fr == Enter(op, info) IN
         IF HandleArgsBad(info)
         THEN End(t, [fr EXCEPT !.out = Raised("TypeError: Expected client ID")], heap, envLive)
         ELSE /\ frame' = [frame EXCEPT ![t] =
                     [fr EXCEPT !.pc = "engine", !.clientID = Int32Value(info[1])]]
              /\ UNCHANGED <<heap, leaked, envLive, envLeaked>>
    /\ ncalls' = ncalls + 1
    /\ UNCHANGED <<build, sessions, issued, crashed>>

ListPluginsEnter(t) == HandleOnlyEnter(t, "listPlugins")

HealthEnter(t) == HandleOnlyEnter(t, "health")

\* line 225 with no default: the absent timeout reaches the engine as 0
TimeoutArg_NoDefault(info) ==
    IF Len(info) > 4 THEN (IF IsNumber(info[5]) THEN Int32Value(info[5]) ELSE 0) ELSE 0

\* line 225: int timeout = info.Length() > 4 ? info[4]...Int32Value() : 30
\* (a failed Int32Value yields 0)
TimeoutArg(info) ==
    IF Len(info) > 4 THEN (IF IsNumber(info[5]) THEN Int32Value(info[5]) ELSE 0)
    ELSE DefaultTimeout

\* ExecutePlugin, lines 212-225
ExecutePluginEnter(t) ==
    /\ CanCall(t)
    /\ \E info \in ExecInfos :
         LET fr == Enter("executePlugin", info) IN
         IF ExecutePluginArgsBad(info)
         THEN End(t, [fr EXCEPT !.out = Raised("TypeError: Expected client ID, plugin name, method, and args")],
                  heap, envLive)
         ELSE LET explicit == Len(info) > 4
                  failed == explicit /\ ~IsNumber(info[5])
                  fr2 == [fr EXCEPT !.clientID = Int32Value(info[1]),
                                    !.strs = <<Utf8Value(info[2].s), Utf8Value(info[3].s),
                                               Utf8Value(info[4].s)>>,
                                    !.nalloc = 3,
                                    !.timeout = TimeoutArg(info),
                                    !.pending = failed]
              IN  IF failed /\ build = "exc"
                  THEN End(t, [fr2 EXCEPT !.out = Raised("napi"), !.pending = FALSE], heap, envLive)
                  ELSE /\ frame' = [frame EXCEPT ![t] = [fr2 EXCEPT !.pc = "engine"]]
                       /\ heap' = heap \cup StringLocals(t)
                       /\ UNCHANGED <<leaked, envLive, envLeaked>>
    /\ ncalls' = ncalls + 1
    /\ UNCHANGED <<build, sessions, issued, crashed>>

----------------------------------------------------------------------------
\* The engine call and what follows it

\* The request record as gzh_node_bulk_clone reads it
RequestSeen(t, req) ==
    <<[req EXCEPT !.platforms_json = Seen(t, "platforms_json", @),
                  !.output_dir = Seen(t, "output_dir", @),
                  !.strategy = Seen(t, "strategy", @),
                  !.filters_json = Seen(t, "filters_json", @)]>>

\* The three c_str() buffers as gzh_node_execute_plugin reads them
BuffersSeen(t, strs) ==
    <<Seen(t, "pluginName", Ptr(CStr(strs[1]))),
      Seen(t, "method", Ptr(CStr(strs[2]))),
      Seen(t, "argsJson", Ptr(CStr(strs[3])))>>

EntryPoint(op) ==
    CASE op = "bulkClone" -> "bulk_clone"
      [] op = "listPlugins" -> "list_plugins"
      [] op = "executePlugin" -> "execute_plugin"
      [] OTHER -> "health"

\* The handlers with gzh_node_free_result placed before ResultToObject
Follows_ReleaseFirst(pc, op) ==
    CASE pc = "engine" -> IF op = "bulkClone" THEN "bc_free" ELSE "release"
      [] pc = "bc_free" -> "release"
      [] pc = "release" -> "translate"
      [] OTHER -> "done"

\* The order of the statements after the engine call (lines 179-190,
\* 203-208, 227-238, 251-256): the step that follows step pc
Follows(pc, op) ==
    CASE pc = "engine" -> IF op = "bulkClone" THEN "bc_free" ELSE "translate"
      [] pc = "bc_free" -> "translate"
      [] pc = "translate" -> "release"
      [] OTHER -> "done"

\* The handler of thread t goes on to step pc2 with frame fr and envelopes
\* el; going on to "done" is "return resultObj"
Goto(t, fr, el, pc2) ==
    IF pc2 = "done"
    THEN End(t, [fr EXCEPT !.out = HostSees(fr, fr.obj)], heap \ StringLocals(t), el)
    ELSE /\ frame' = [frame EXCEPT ![t] = [fr EXCEPT !.pc = pc2]]
         /\ envLive' = el
         /\ UNCHANGED <<heap, leaked, envLeaked>>

\* lines 179, 203, 227-233, 251: gzh_result_t* result = gzh_node_...(clientID, ...)
EngineCall(t) ==
    /\ ~crashed
    /\ frame[t].pc = "engine"
    /\ LET fr == frame[t] IN
       \E r \in EngineResults(sessions, fr.clientID) :
         /\ frame' = [frame EXCEPT ![t] =
                [fr EXCEPT !.pc = Follows("engine", fr.op),
                           !.res = r, !.nengine = @ + 1,
                           !.recv = <<[fn |-> EntryPoint(fr.op), id |-> fr.clientID,
                                       arg |-> CASE fr.op = "bulkClone" -> RequestSeen(t, fr.req)
                                                 [] fr.op = "executePlugin" -> BuffersSeen(t, fr.strs)
                                                 [] OTHER -> NULL,
                                       timeout |-> fr.timeout]>>]]
         /\ envLive' = IF r # NULL THEN envLive \cup {t} ELSE envLive
    /\ UNCHANGED <<build, sessions, issued, heap, leaked, envLeaked, ncalls, crashed>>

\* lines 181-185: "Free request strings"
BulkCloneFree(t) ==
    /\ ~crashed
    /\ frame[t].pc = "bc_free"
    /\ LET fr == frame[t]
           freed == {<<t, a>> : a \in FreeRequestStrings(fr.req)}
       IN  /\ frame' = [frame EXCEPT ![t] =
                  [fr EXCEPT !.pc = Follows("bc_free", fr.op), !.memErr = @ \/ (freed \ heap # {})]]
           /\ heap' = heap \ freed
    /\ UNCHANGED <<build, sessions, issued, leaked, envLive, envLeaked, ncalls, crashed>>

\* What a read through an invalid result pointer can yield
Garbage == {e \in Envelopes : e.error_msg = NULL /\ e.data_json = NULL}

\* lines 187, 205, 235, 253: Napi::Object resultObj = ResultToObject(env, result)
Translate(t) ==
    /\ ~crashed
    /\ frame[t].pc = "translate"
    /\ LET fr == frame[t] IN
       IF fr.res = NULL \/ t \notin envLive
       THEN \* result->success reads memory that is not an envelope
            \/ /\ crashed' = TRUE
               /\ frame' = [frame EXCEPT ![t] = [fr EXCEPT !.pc = "crashed", !.memErr = TRUE]]
               /\ UNCHANGED <<heap, leaked, envLive, envLeaked>>
            \/ /\ \E g \in Garbage :
                    Goto(t, [fr EXCEPT !.memErr = TRUE,
                                       !.obj = IF fr.pending THEN EmptyObject ELSE ResultToObject(g)],
                         envLive, Follows("translate", fr.op))
               /\ UNCHANGED crashed
       ELSE \E napiOk \in (IF fr.res[1].data_json # NULL THEN BOOLEAN ELSE {TRUE}) :
            IF fr.pending
            THEN \* every property store fails while an exception is pending
                 /\ Goto(t, [fr EXCEPT !.obj = EmptyObject], envLive, Follows("translate", fr.op))
                 /\ UNCHANGED crashed
            ELSE IF napiOk
            THEN /\ Goto(t, [fr EXCEPT !.obj = ResultToObject(fr.res[1])], envLive,
                         Follows("translate", fr.op))
                 /\ UNCHANGED crashed
            ELSE IF build = "exc"
            THEN \* String::New throws: the handler unwinds past gzh_node_free_result
                 /\ End(t, [fr EXCEPT !.out = Raised("napi")], heap \ StringLocals(t), envLive)
                 /\ UNCHANGED crashed
            ELSE /\ Goto(t, [fr EXCEPT !.pending = TRUE, !.obj = EmptyObject], envLive,
                         Follows("translate", fr.op))
                 /\ UNCHANGED crashed
    /\ UNCHANGED <<build, sessions, issued, ncalls>>

\* lines 188-190, 206-208, 236-238, 254-256: gzh_node_free_result(result); return resultObj
Release(t) ==
    /\ ~crashed
    /\ frame[t].pc = "release"
    /\ LET fr == frame[t] IN
       Goto(t, [fr EXCEPT !.nfree = @ + 1,
                          !.memErr = @ \/ fr.res = NULL \/ t \notin envLive],
            envLive \ {t}, Follows("release", fr.op))
    /\ UNCHANGED <<build, sessions, issued, ncalls, crashed>>

----------------------------------------------------------------------------
Init ==
    /\ build \in {"exc", "noexc"}
    /\ sessions = {}
    /\ issued = {}
    /\ frame = [t \in Threads |-> IdleFrame]
    /\ heap = {}
    /\ leaked = 0
    /\ envLive = {}
    /\ envLeaked = 0
    /\ ncalls = 0
    /\ crashed = FALSE

Next ==
    \E t \in Threads :
        \/ CreateClientEnter(t)
        \/ CreateClientEngine(t)
        \/ CreateClientExit(t)
        \/ DestroyClient(t)
        \/ BulkCloneEnter(t)
        \/ ListPluginsEnter(t)
        \/ ExecutePluginEnter(t)
        \/ HealthEnter(t)
        \/ EngineCall(t)
        \/ BulkCloneFree(t)
        \/ Translate(t)
        \/ Release(t)

Spec == Init /\ [][Next]_vars

\* Two threads of the host, each calling the exported functions on its own
Workers == {"t1", "t2"}

\* The calls the two threads make: the ones that allocate and release,
\* all on handle 0
ConcurrentInfos ==
    { <<Obj([pluginDir |-> Str(TxtA), logLevel |-> Num(0, 3), logFile |-> Str(TxtA)])>>,
      <<Num(0, 0)>>,
      <<Num(0, 0), Obj([platforms |-> Str(TxtA), outputDir |-> Num(0, 5),
                        strategy |-> Str(TxtA)])>>,
      <<Num(0, 0), Str(TxtA), Str(TxtA), Str(TxtA)>> }

InitConcurrent ==
    /\ build \in {"exc", "noexc"}
    /\ sessions = {}
    /\ issued = {}
    /\ frame = [t \in Workers |-> IdleFrame]
    /\ heap = {}
    /\ leaked = 0
    /\ envLive = {}
    /\ envLeaked = 0
    /\ ncalls = 0
    /\ crashed = FALSE

\* Any statement-level interleaving of the two threads' handlers
\* Thread t has just entered a handler with one of the calls above
Concurrently(t) == frame'[t].info \in ConcurrentInfos

\* Any statement-level interleaving of the two threads' handlers
NextConcurrent ==
    \E t \in Workers :
        \/ CreateClientEnter(t) /\ Concurrently(t)
        \/ CreateClientEngine(t)
        \/ CreateClientExit(t)
        \/ DestroyClient(t) /\ Concurrently(t)
        \/ BulkCloneEnter(t) /\ Concurrently(t)
        \/ ListPluginsEnter(t) /\ Concurrently(t)
        \/ ExecutePluginEnter(t) /\ Concurrently(t)
        \/ HealthEnter(t) /\ Concurrently(t)
        \/ EngineCall(t)
        \/ BulkCloneFree(t)
        \/ Translate(t)
        \/ Release(t)

SpecConcurrent == InitConcurrent /\ [][NextConcurrent]_vars

----------------------------------------------------------------------------
\* Properties

ResultOps == {"bulkClone", "listPlugins", "executePlugin", "health"}

Done(t) == frame[t].pc = "done"

\* The host number n is not the handle of a session that was live when the
\* invocation began: it was never issued, or its session has been destroyed
Stale(n, live) == ~(IsNumber(n) /\ n.s[1] = 0 /\ n.s[2] \in live)

\* C1: every invocation of bulkClone, listPlugins, executePlugin or health
\* that received an envelope has called gzh_node_free_result on it exactly
\* once by the time it ends, and never more than once before that.
C1_ReleasedExactlyOnce ==
    \A t \in Threads :
        (frame[t].op \in ResultOps /\ frame[t].res # NULL) =>
            /\ frame[t].nfree <= 1
            /\ Done(t) => frame[t].nfree = 1

\* C2: when a bulkClone invocation ends, every request string it allocated
\* has been freed, none twice, whatever the exit path.
C2_RequestStringsFreed ==
    \A t \in Threads :
        frame[t].op = "bulkClone" =>
            /\ frame[t].pc = "translate" =>
                   /\ ~frame[t].memErr
                   /\ \A cf \in RequestStrings : <<t, cf>> \notin heap
            /\ Done(t) => frame[t].left = 0

\* The required arguments of operation op are missing or wrongly typed
BadCall(op, info) ==
    \/ Len(info) < 1
    \/ ~IsNumber(info[1])
    \/ op = "bulkClone" /\ (Len(info) < 2 \/ ~IsObject(info[2]))
    \/ op = "executePlugin" /\ (Len(info) < 4 \/ \E i \in 2 .. 4 : ~IsString(info[i]))

\* The messages of the errors raised by the argument checks (lines 130, 145, 198, 217, 246)
BoundaryErrors ==
    {"TypeError: Expected client ID",
     "TypeError: Expected client ID and request object",
     "TypeError: Expected client ID, plugin name, method, and args"}

\* C3: destroyClient, bulkClone, listPlugins, executePlugin and health, called
\* with a missing or wrongly typed required argument, raise a boundary type
\* error having made no engine call and no allocation, and leave the engine's
\* sessions as they were.
C3_BadCallRejectedFirst ==
    \A t \in Threads :
        (/\ frame[t].op \in ResultOps \cup {"destroyClient"}
         /\ frame[t].pc # "idle"
         /\ BadCall(frame[t].op, frame[t].info)) =>
            /\ Done(t)
            /\ frame[t].out.kind = "raised"
            /\ frame[t].out.err \in BoundaryErrors
            /\ frame[t].nengine = 0
            /\ frame[t].nalloc = 0
            /\ frame[t].recv = <<>>
            /\ sessions = frame[t].before

C3_Witness ==
    \E t \in Threads :
        /\ Done(t)
        /\ frame[t].op = "executePlugin"
        /\ Len(frame[t].info) = 4
        /\ IsNumber(frame[t].info[1])
        /\ ~IsString(frame[t].info[4])
        /\ frame[t].out.kind = "raised"
        /\ sessions # {}

\* C4: createClient returns a handle exactly when gzh_node_client_create
\* returned a non-negative value, and the handle is that value; on a negative
\* value it raises, yields no handle, and no envelope is created or released.
C4_HandleIffEngineCreated ==
    \A t \in Threads :
        (frame[t].op = "createClient" /\ Done(t)) =>
            /\ frame[t].out.kind = "value" <=> (frame[t].nengine = 1 /\ frame[t].clientID >= 0)
            /\ frame[t].out.kind = "value" => frame[t].out.v = Num(0, frame[t].clientID)
            /\ (frame[t].nengine = 1 /\ frame[t].clientID < 0) =>
                   /\ frame[t].out.kind = "raised"
                   /\ frame[t].res = NULL
                   /\ frame[t].nfree = 0
                   /\ t \notin envLive

\* C5: destroyClient given a host number that is not the handle of a live
\* session (already destroyed, or never issued) touches no invalid memory,
\* returns nothing, and leaves the set of live sessions as it was.
C5_StaleDestroyIsNoOp ==
    \A t \in Threads :
        (/\ frame[t].op = "destroyClient"
         /\ Done(t)
         /\ Len(frame[t].info) >= 1
         /\ IsNumber(frame[t].info[1])
         /\ Stale(frame[t].info[1], frame[t].before)) =>
            /\ ~frame[t].memErr
            /\ ~crashed
            /\ frame[t].out = Returned(Undef)
            /\ sessions = frame[t].before

\* C6: bulkClone, listPlugins, executePlugin and health given a host number
\* that is not the handle of a live session never crash and never read memory
\* that is not a live envelope; the host gets an error or a value whose
\* success is false.
C6_StaleUseIsSafe ==
    \A t \in Threads :
        (/\ frame[t].op \in ResultOps
         /\ Len(frame[t].info) >= 1
         /\ IsNumber(frame[t].info[1])
         /\ Stale(frame[t].info[1], frame[t].before)) =>
            /\ ~frame[t].memErr
            /\ frame[t].pc # "crashed"
            /\ (Done(t) /\ frame[t].out.kind = "value") =>
                   /\ "success" \in DOMAIN frame[t].out.v.f
                   /\ frame[t].out.v.f["success"] = Bool(FALSE)

\* The configuration argument is absent, or an object whose present
\* properties all have the type of their field
WellTyped(v, k) == v.k = k
ValidConfig(info) ==
    (Len(info) > 0 /\ IsObject(info[1])) =>
        LET f == info[1].f IN
        /\ \A n \in DOMAIN f \cap {"timeout", "retryCount"} : WellTyped(f[n], "number")
        /\ \A n \in DOMAIN f \cap {"enablePlugins"} : WellTyped(f[n], "boolean")
        /\ \A n \in DOMAIN f \cap {"pluginDir", "logLevel", "logFile"} : WellTyped(f[n], "string")

\* C7: after createClient with a valid configuration returns, whether the
\* engine created a session or not, nothing the bridge allocated for the
\* configuration is still allocated, so repeated cycles add no allocation.
C7_ConfigFreedEveryCycle ==
    \A t \in Threads :
        (frame[t].op = "createClient" /\ Done(t) /\ ValidConfig(frame[t].info)) =>
            /\ frame[t].left = 0
            /\ ~frame[t].memErr
            /\ \A b \in heap : b[1] # t

C7_Witness ==
    \E t \in Threads :
        /\ frame[t].op = "createClient"
        /\ Done(t)
        /\ ValidConfig(frame[t].info)
        /\ frame[t].nalloc = 4
        /\ frame[t].clientID < 0
        /\ frame[t].out.kind = "raised"
        /\ ncalls = MaxCalls

\* The C field a host property of the bulk clone request is translated into
RequestField(n) ==
    CASE n = "platforms" -> "platforms_json"
      [] n = "outputDir" -> "output_dir"
      [] n = "strategy" -> "strategy"
      [] n = "filters" -> "filters_json"
      [] n = "concurrency" -> "concurrency"
      [] OTHER -> "include_private"

\* C8: what gzh_node_bulk_clone receives: every string property present in
\* the host request content-equal (so an empty string as a non-null empty
\* string), every absent property as a null pointer or zero.
C8_RequestReachesEngine ==
    \A t \in Threads :
        (frame[t].op = "bulkClone" /\ frame[t].recv # <<>>) =>
            LET f == frame[t].info[2].f
                got == frame[t].recv[1].arg[1]
            IN  /\ \A n \in {"platforms", "outputDir", "strategy", "filters"} :
                       /\ (n \in DOMAIN f /\ IsString(f[n])) =>
                              got[RequestField(n)] = Ptr(Utf8Value(f[n].s))
                       /\ n \notin DOMAIN f => got[RequestField(n)] = NULL
                /\ \A n \in {"concurrency", "includePrivate"} :
                       n \notin DOMAIN f => got[RequestField(n)] = 0

\* The C field a host property of the configuration is translated into
ConfigField(n) ==
    CASE n = "timeout" -> "timeout"
      [] n = "retryCount" -> "retry_count"
      [] n = "enablePlugins" -> "enable_plugins"
      [] n = "pluginDir" -> "plugin_dir"
      [] n = "logLevel" -> "log_level"
      [] OTHER -> "log_file"

\* The C field value c carries the host value v of the property n unchanged
Carries(n, c, v) ==
    CASE n = "timeout" -> c = v.s
      [] n = "retryCount" -> v.s[1] = 0 /\ c = v.s[2]
      [] n = "enablePlugins" -> c = v.s[1]
      [] OTHER -> c = Ptr(Utf8Value(v.s))

ConfigType(n) ==
    CASE n \in {"timeout", "retryCount"} -> "number"
      [] n = "enablePlugins" -> "boolean"
      [] OTHER -> "string"

\* C9: gzh_node_client_create receives a null pointer exactly when no
\* configuration object is given, and otherwise a record in which every
\* property present in the host value carries that value and every absent one
\* is zero or a null pointer.
C9_ConfigReachesEngine ==
    \A t \in Threads :
        (frame[t].op = "createClient" /\ frame[t].recv # <<>>) =>
            LET info == frame[t].info
                given == Len(info) > 0 /\ IsObject(info[1])
                got == frame[t].recv[1].arg
            IN  /\ got = NULL <=> ~given
                /\ given =>
                     /\ \A n \in DOMAIN info[1].f :
                            info[1].f[n].k = ConfigType(n) =>
                                Carries(n, got[1][ConfigField(n)], info[1].f[n])
                     /\ \A n \in {"timeout", "retryCount", "enablePlugins",
                                  "pluginDir", "logLevel", "logFile"} \ DOMAIN info[1].f :
                            got[1][ConfigField(n)] = ZeroConfig[ConfigField(n)]

\* C10: the host value translated from an envelope has exactly the fields
\* success, error and data: success is true iff the envelope's flag is set,
\* error / data are null iff the envelope has no message / payload and
\* otherwise equal it.
C10_EnvelopeTranslation ==
    \A t \in Threads :
        (/\ frame[t].op \in ResultOps
         /\ Done(t)
         /\ frame[t].res # NULL
         /\ frame[t].out.kind = "value") =>
            LET r == frame[t].res[1]
                v == frame[t].out.v
            IN  /\ v.k = "object"
                /\ DOMAIN v.f = {"success", "error", "data"}
                /\ v.f["success"] = Bool(r.success # 0)
                /\ v.f["error"] = JsNull <=> r.error_msg = NULL
                /\ r.error_msg # NULL => v.f["error"] = Str(Utf8Decode(r.error_msg[1]))
                /\ v.f["data"] = JsNull <=> r.data_json = NULL
                /\ r.data_json # NULL => v.f["data"] = Str(Utf8Decode(r.data_json[1]))

C10_Witness ==
    \E t \in Threads :
        /\ frame[t].op = "bulkClone"
        /\ Done(t)
        /\ frame[t].res # NULL
        /\ frame[t].res[1] = [success |-> 1, error_msg |-> NULL, data_json |-> NULL]
        /\ frame[t].out.kind = "value"
        /\ frame[t].out.v.f["error"] = JsNull
        /\ frame[t].out.v.f["data"] = JsNull

\* C11 as stated: executePlugin passes 30 when no timeout is given, and
\* exactly t when the integer timeout t is given.
C11_TimeoutExactlyAsGiven ==
    \A t \in Threads :
        (frame[t].op = "executePlugin" /\ frame[t].recv # <<>>) =>
            LET info == frame[t].info IN
            /\ Len(info) <= 4 => frame[t].recv[1].timeout = 30
            /\ (Len(info) > 4 /\ IsNumber(info[5])) =>
                   info[5] = Num(0, frame[t].recv[1].timeout)

\* C11 (amended): executePlugin passes 30 when no timeout is given; given the
\* integer timeout t it passes exactly t when t is in the signed 32-bit
\* range, and the low 32 bits of t otherwise.
C11_TimeoutDefaultOrLow32 ==
    \A t \in Threads :
        (frame[t].op = "executePlugin" /\ frame[t].recv # <<>>) =>
            LET info == frame[t].info IN
            /\ Len(info) <= 4 => frame[t].recv[1].timeout = 30
            /\ (Len(info) > 4 /\ IsNumber(info[5])) =>
                   /\ frame[t].recv[1].timeout = info[5].s[2]
                   /\ info[5].s[1] = 0 => info[5] = Num(0, frame[t].recv[1].timeout)

C11_Witness ==
    \E t \in Threads :
        /\ frame[t].op = "executePlugin"
        /\ frame[t].recv # <<>>
        /\ Len(frame[t].info) = 4
        /\ frame[t].recv[1].timeout = 30
        /\ frame[t].recv[1].fn = "execute_plugin"

\* C12: an accepted invocation of bulkClone, listPlugins, executePlugin or
\* health calls its engine entry point exactly once; an envelope with
\* success = false comes back to the host as a value with success = false and
\* the engine's error message, never as an exception.
C12_OneCallFailureIsAValue ==
    \A t \in Threads :
        (/\ frame[t].op \in ResultOps
         /\ frame[t].pc # "idle"
         /\ ~BadCall(frame[t].op, frame[t].info)) =>
            /\ frame[t].nengine <= 1
            /\ Done(t) => frame[t].nengine = 1
            /\ (Done(t) /\ frame[t].res # NULL /\ frame[t].res[1].success = 0) =>
                   /\ frame[t].out.kind = "value"
                   /\ "success" \in DOMAIN frame[t].out.v.f
                   /\ frame[t].out.v.f["success"] = Bool(FALSE)
                   /\ frame[t].out.v.f["error"] =
                          IF frame[t].res[1].error_msg = NULL THEN JsNull
                          ELSE Str(Utf8Decode(frame[t].res[1].error_msg[1]))

\* The type the bulk clone request's property n must have
RequestType(n) ==
    CASE n = "concurrency" -> "number"
      [] n = "includePrivate" -> "boolean"
      [] OTHER -> "string"

RequestProps == {"platforms", "outputDir", "concurrency", "strategy", "includePrivate", "filters"}

\* The bulkClone call is badly typed: a required argument is missing or has
\* the wrong type, or a property of the request is present with a wrong type
BadlyTypedBulkClone(info) ==
    \/ BadCall("bulkClone", info)
    \/ \E n \in DOMAIN info[2].f \cap RequestProps : info[2].f[n].k # RequestType(n)

\* C13: when bulkClone raises a type error for a badly typed call, it has
\* allocated no request string before.
C13_RejectedBeforeAllocation ==
    \A t \in Threads :
        (/\ frame[t].op = "bulkClone"
         /\ Done(t)
         /\ frame[t].out.kind = "raised"
         /\ BadlyTypedBulkClone(frame[t].info)) =>
            frame[t].nalloc = 0

\* The names of the blocks the bridge allocates
BridgeBlocks ==
    {"config"} \cup ConfigStrings \cup RequestStrings \cup {"pluginName", "method", "argsJson"}

\* The string pointers handed to the engine in the call recorded as rc
StringsPassed(rc) ==
    CASE rc.fn = "client_create" ->
             IF rc.arg = NULL THEN {} ELSE {rc.arg[1][cf] : cf \in ConfigStrings}
      [] rc.fn = "bulk_clone" -> {rc.arg[1][cf] : cf \in RequestStrings}
      [] rc.fn = "execute_plugin" -> {rc.arg[i] : i \in 1 .. 3}
      [] OTHER -> {}

\* C14: every string createClient, bulkClone and executePlugin hand to the
\* engine is a copy the bridge allocated for that call and is live during it;
\* the bridge frees only blocks it allocated, has freed all of them when the
\* invocation ends, and its heap never holds engine memory.
C14_OwnershipZones ==
    /\ \A b \in heap : b[2] \in BridgeBlocks
    /\ \A t \in Threads :
        (frame[t].op \in {"createClient", "bulkClone", "executePlugin"} /\ frame[t].recv # <<>>) =>
            /\ Dangling \notin StringsPassed(frame[t].recv[1])
            /\ frame[t].op = "executePlugin" => NULL \notin StringsPassed(frame[t].recv[1])
            /\ Cardinality(StringsPassed(frame[t].recv[1]) \ {NULL}) <= frame[t].nalloc
            /\ (frame[t].op = "createClient" /\ Done(t)) => ~frame[t].memErr
            /\ (frame[t].op = "bulkClone" /\ frame[t].pc = "translate") =>
                   /\ ~frame[t].memErr
                   /\ \A cf \in RequestStrings : <<t, cf>> \notin heap
            /\ Done(t) => (frame[t].left = 0 /\ \A b \in heap : b[1] # t)

C14_Witness ==
    \E t \in Threads :
        /\ frame[t].op = "bulkClone"
        /\ Done(t)
        /\ frame[t].recv # <<>>
        /\ frame[t].recv[1].arg[1].filters_json = Ptr(<<97>>)
        /\ frame[t].nalloc = 2
        /\ frame[t].left = 0

\* C15: the envelope is read (success, error_msg, data_json) only while it
\* is live, that is before gzh_node_free_result; once released it is not read
\* again, and the host value holds strings of its own.
C15_ReadBeforeRelease ==
    \A t \in Threads :
        (frame[t].op \in ResultOps /\ frame[t].res # NULL) =>
            /\ ~frame[t].memErr
            /\ frame[t].pc = "translate" => (t \in envLive /\ frame[t].nfree = 0)
            /\ frame[t].nfree > 0 => (t \notin envLive /\ frame[t].pc = "done")
            /\ (Done(t) /\ frame[t].out.kind = "value") =>
                   /\ t \notin envLive
                   /\ \A n \in {"error", "data"} : frame[t].out.v.f[n].k \in {"string", "null"}
                   /\ frame[t].out.v = ResultToObject(frame[t].res[1])

C15_Witness ==
    \E t \in Threads :
        /\ frame[t].op = "health"
        /\ Done(t)
        /\ frame[t].res # NULL
        /\ frame[t].res[1].data_json # NULL
        /\ frame[t].nfree = 1
        /\ frame[t].out.kind = "value"
        /\ frame[t].out.v.f["data"] = Str(<<100>>)

\* The blocks behind the arguments of the engine call of thread t
ArgumentBlocks(t) ==
    CASE frame[t].op = "createClient" ->
             IF frame[t].cfg = NULL THEN {}
             ELSE {<<t, "config">>} \cup {<<t, cf>> : cf \in {x \in ConfigStrings : frame[t].cfg[1][x] # NULL}}
      [] frame[t].op = "bulkClone" ->
             {<<t, cf>> : cf \in {x \in RequestStrings : frame[t].req[x] # NULL}}
      [] frame[t].op = "executePlugin" ->
             {<<t, "pluginName">>, <<t, "method">>, <<t, "argsJson">>}
      [] OTHER -> {}

\* C16: the configuration record and its strings, the request strings, and
\* the three plugin buffers are allocated and unchanged when the engine call
\* begins and still so when it has returned; they are released only later.
C16_ArgumentsOutliveTheCall ==
    \A t \in Threads :
        /\ frame[t].pc \in {"cc_engine", "engine", "cc_free", "bc_free"} =>
               ArgumentBlocks(t) \subseteq heap
        /\ (frame[t].op = "executePlugin" /\ frame[t].pc \in {"translate", "release"}) =>
               ArgumentBlocks(t) \subseteq heap
        /\ frame[t].recv # <<>> =>
               /\ Dangling \notin StringsPassed(frame[t].recv[1])
               /\ frame[t].op = "createClient" =>
                      frame[t].recv[1].arg = frame[t].cfg
               /\ frame[t].op = "bulkClone" =>
                      frame[t].recv[1].arg = <<frame[t].req>>
               /\ frame[t].op = "executePlugin" =>
                      frame[t].recv[1].arg = <<Ptr(CStr(frame[t].strs[1])),
                                               Ptr(CStr(frame[t].strs[2])),
                                               Ptr(CStr(frame[t].strs[3]))>>

C16_Witness ==
    \E t \in Threads :
        /\ frame[t].op = "executePlugin"
        /\ frame[t].pc = "translate"
        /\ frame[t].recv # <<>>
        /\ frame[t].recv[1].arg = <<Ptr(<<97>>), Ptr(Utf8Value(TxtNonAscii)), Ptr(<<>>)>>
        /\ ArgumentBlocks(t) \subseteq heap

\* Thread t has an invocation in progress
Running(t) == frame[t].pc \notin {"idle", "done"}

\* C17: with invocations of two threads interleaved, every block on the heap
\* and every live envelope belongs to an invocation still in progress, no
\* invocation frees anything twice or touches freed storage, and nothing an
\* invocation allocated or received is left unfreed when it has ended.
C17_InvocationsIsolated ==
    /\ \A b \in heap : Running(b[1])
    /\ \A t \in envLive : Running(t)
    /\ \A t \in DOMAIN frame :
           /\ ~frame[t].memErr
           /\ frame[t].nfree <= 1
           /\ Done(t) => frame[t].left = 0
    /\ leaked = 0
    /\ envLeaked = 0

\* The operations that take a session handle as their first argument
HandleOps == ResultOps \cup {"destroyClient"}

\* C18: the handle the engine receives is exactly the host number that was
\* passed: an issued handle arrives unchanged, and no other host number
\* arrives as the same integer.
C18_HandleRoundTrip ==
    \A t \in Threads :
        (frame[t].op \in HandleOps /\ frame[t].recv # <<>>) =>
            frame[t].info[1] = Num(0, frame[t].recv[1].id)

====
